---- MODULE Spec2Model ----
(***************************************************************************)
(* The commit-graph engine of popcore (class Population and class Player   *)
(* of src/src/popcore/population.py): commit, branch, checkout, detach and *)
(* attach over a heap of Player objects.                                   *)
(*                                                                         *)
(* Python objects are modelled by a heap: `players` is the sequence of all *)
(* Player objects ever constructed, an object is its index, 0 is None.     *)
(* A str is a sequence of tokens, so that attach's `branch + str(i)` is    *)
(* sequence concatenation; '' is the empty sequence.  A dict is the        *)
(* sequence of its items in insertion order.                               *)
(*                                                                         *)
(* core.py holds the same engine under other field names (player, _branch, *)
(* _branches, name, descendants).  Its Player.add_descendant passes `self` *)
(* positionally into the `name` parameter of Player.__init__ together with *)
(* name=..., so every core.py commit raises TypeError before it changes    *)
(* anything; commit is therefore modelled from population.py, where the    *)
(* same code runs.  checkout and the traversals walk_lineage, walk_gen and *)
(* walk are those of core.py, read over the same fields.                   *)
(***************************************************************************)
EXTENDS Integers, Sequences, FiniteSets, TLC

VARIABLES players, pops, attaches, res

vars == <<players, pops, attaches, res>>

----------------------------------------------------------------------------
(* Bounds *)

\* Player objects ever constructed (roots, commits, failed commits).
MaxPlayers == 4

----------------------------------------------------------------------------
(* Strings *)

None == 0

EmptyStr == <<>>

DefaultRootId == <<"_root">>

\* The names a caller passes besides the names the graph already knows: as the
\* id of a commit, and as the name of a branch.
CommitIds == {<<"a">>}

BranchNames == {<<"b">>}

\* The payloads a caller passes to commit ("None" is Python's None).
Payloads == {"w"}

DigitChars == <<"0", "1", "2", "3", "4", "5", "6", "7", "8", "9">>

\* str(i) of a non-negative int.
RECURSIVE Str(_)
Str(i) ==
    IF i < 10 THEN <<DigitChars[i + 1]>>
    ELSE Str(i \div 10) \o <<DigitChars[(i % 10) + 1]>>

----------------------------------------------------------------------------
(* dict: the sequence of its items [k, v] in insertion order *)

Keys(d) == {d[i].k : i \in DOMAIN d}

Get(d, key) == d[CHOOSE i \in DOMAIN d : d[i].k = key].v

Put(d, key, val) ==
    IF key \in Keys(d)
    THEN [i \in DOMAIN d |-> IF d[i].k = key THEN [k |-> key, v |-> val] ELSE d[i]]
    ELSE Append(d, [k |-> key, v |-> val])

----------------------------------------------------------------------------
(* class Player *)

\* Player.__init__
Player(parent, model_parameters, id_str, generation, branch_name) ==
    [parent |-> parent,
     children |-> <<>>,
     model_parameters |-> model_parameters,
     id_str |-> id_str,
     generation |-> generation,
     branch_name |-> branch_name]

\* add_child as if called with new_generation=False: the child stays in its
\* parent's generation.
add_child_same_generation(H, self, model_parameters, id_str, branch_name) ==
    LET bn == IF branch_name = EmptyStr THEN H[self].branch_name ELSE branch_name
        child == Player(self, model_parameters, id_str, H[self].generation, bn)
        H1 == Append(H, child)
    IN  [H1 EXCEPT ![self].children = Append(@, Len(H) + 1)]

\* Player.add_child on object `self` of heap H: the heap with the new child
\* (object Len(H) + 1) constructed and appended to self.children.
add_child(H, self, model_parameters, id_str, branch_name) ==
    LET bn == IF branch_name = EmptyStr THEN H[self].branch_name ELSE branch_name
        child == Player(self, model_parameters, id_str,
                        H[self].generation + 1, bn)
        H1 == Append(H, child)
    IN  [H1 EXCEPT ![self].children = Append(@, Len(H) + 1)]

----------------------------------------------------------------------------
(* class Population *)

Graphs == {"pop", "detached_pop"}

\* Population.__init__(root_id), its root being object `root` of the heap.
Population(root, root_id) ==
    [root |-> root,
     nodes |-> <<[k |-> root_id, v |-> root]>>,
     generations |-> << <<>> >>,
     current_node |-> root,
     current_branch |-> root_id,
     branches |-> {root_id}]

\* The root object Population.__init__ constructs.
RootPlayer(root_id) == Player(None, "None", root_id, 0, root_id)

\* No Population object (before detach).
NoPopulation ==
    [root |-> None,
     nodes |-> <<>>,
     generations |-> <<>>,
     current_node |-> None,
     current_branch |-> EmptyStr,
     branches |-> {}]

Live(g) == pops[g].root # None

\* The caller works on a graph that exists, and hands detached_pop over when
\* it attaches it: no call on detached_pop follows pop.attach(detached_pop),
\* and detached_pop is attached once.
Callable(g) == Live(g) /\ (g = "detached_pop" => attaches = 0)

\* str(node) of the objects from o up its parent links: what __generate_id hashes.
RECURSIVE PathStr(_, _)
PathStr(H, o) ==
    IF o = None THEN <<>> ELSE Str(o) \o PathStr(H, H[o].parent)

\* Population.__generate_id: id_str if given, else the sha1 digest of the path
\* of `node` (an injective image of the path, disjoint from the user's names).
generate_id(H, id_str, node) ==
    IF id_str # EmptyStr THEN id_str ELSE <<"#">> \o PathStr(H, node)

\* Population.__add_gen: generations with `player` appended to its generation.
\* Python list index g is sequence index g + 1.
add_gen(generations, player, generation) ==
    LET gens == IF Len(generations) <= generation
                THEN Append(generations, <<>>) ELSE generations
    IN  [gens EXCEPT ![generation + 1] = Append(@, player)]

\* __add_gen raises IndexError when the generation is beyond the list.
add_gen_ok(generations, generation) ==
    generation + 1 <= (IF Len(generations) <= generation
                       THEN Len(generations) + 1 ELSE Len(generations))

\* What the last call was and how it ended: the method, the graph it was called
\* on, its name argument, "ok" or the exception raised, and the value returned.
Result(op, g, arg, status, ret) ==
    [op |-> op, g |-> g, arg |-> arg, status |-> status, ret |-> ret]

----------------------------------------------------------------------------
Init ==
    /\ players = <<RootPlayer(DefaultRootId)>>
    /\ pops = [g \in Graphs |->
                 IF g = "pop" THEN Population(1, DefaultRootId) ELSE NoPopulation]
    /\ attaches = 0
    /\ res = Result("init", "pop", DefaultRootId, "ok", EmptyStr)

\* The names graph g knows: the keys of its index and its branches.
Known(g) == Keys(pops[g].nodes) \cup pops[g].branches

\* Population.commit(model_parameters, id_str=id_str) with the default hooks.
commit(g, model_parameters, id_str) ==
    LET P == pops[g]
        child == Len(players) + 1
        H1 == add_child(players, P.current_node, model_parameters, id_str,
                        P.current_branch)
        id == generate_id(H1, id_str, child)
    IN  /\ Callable(g)
        /\ Len(players) < MaxPlayers
        /\ IF id \in Keys(P.nodes)
           THEN /\ players' = H1
                /\ pops' = pops
                /\ res' = Result("commit", g, id_str, "ValueError", EmptyStr)
           ELSE /\ players' = [H1 EXCEPT ![child].id_str = id]
                /\ pops' = [pops EXCEPT ![g] =
                     [P EXCEPT
                        !.nodes = Put(Put(P.nodes, id, child), P.current_branch, child),
                        !.generations = add_gen(P.generations, child,
                                                H1[child].generation),
                        !.current_node = child]]
                /\ res' = Result("commit", g, id_str, "ok", id)
        /\ UNCHANGED attaches

\* branch that also checks the new branch out.
branch_and_checkout(g, branch_name) ==
    LET P == pops[g]
    IN  /\ Callable(g)
        /\ IF branch_name \in Keys(P.nodes)
           THEN /\ pops' = pops
                /\ res' = Result("branch", g, branch_name, "ValueError", EmptyStr)
           ELSE /\ pops' = [pops EXCEPT ![g] =
                     [P EXCEPT
                        !.nodes = Put(P.nodes, branch_name, P.current_node),
                        !.branches = P.branches \cup {branch_name},
                        !.current_branch = branch_name]]
                /\ res' = Result("branch", g, branch_name, "ok", branch_name)
        /\ UNCHANGED <<players, attaches>>

\* Population.branch(branch_name).
branch(g, branch_name) ==
    LET P == pops[g]
    IN  /\ Callable(g)
        /\ IF branch_name \in Keys(P.nodes)
           THEN /\ pops' = pops
                /\ res' = Result("branch", g, branch_name, "ValueError", EmptyStr)
           ELSE /\ pops' = [pops EXCEPT ![g] =
                     [P EXCEPT
                        !.nodes = Put(P.nodes, branch_name, P.current_node),
                        !.branches = P.branches \cup {branch_name}]]
                /\ res' = Result("branch", g, branch_name, "ok", branch_name)
        /\ UNCHANGED <<players, attaches>>

\* Population.branch() without its required argument: Python raises TypeError
\* at the call, before the body runs.
branch_no_args(g) ==
    /\ Callable(g)
    /\ res' = Result("branch()", g, EmptyStr, "TypeError", EmptyStr)
    /\ UNCHANGED <<players, pops, attaches>>

\* checkout that keeps the current branch when the name is no branch.
checkout_keep_branch(g, branch_name) ==
    LET P == pops[g]
        node == Get(P.nodes, branch_name)
    IN  /\ Callable(g)
        /\ IF branch_name \notin Keys(P.nodes)
           THEN /\ pops' = pops
                /\ res' = Result("checkout", g, branch_name, "ValueError", EmptyStr)
           ELSE /\ pops' = [pops EXCEPT ![g] =
                     [P EXCEPT
                        !.current_node = node,
                        !.current_branch =
                            IF branch_name \in P.branches THEN branch_name
                            ELSE P.current_branch]]
                /\ res' = Result("checkout", g, branch_name, "ok", EmptyStr)
        /\ UNCHANGED <<players, attaches>>

\* checkout that raises for an unknown name only after it has moved to the root.
checkout_resets_on_error(g, branch_name) ==
    LET P == pops[g]
        node == Get(P.nodes, branch_name)
    IN  /\ Callable(g)
        /\ IF branch_name \notin Keys(P.nodes)
           THEN /\ pops' = [pops EXCEPT ![g] = [P EXCEPT !.current_node = P.root]]
                /\ res' = Result("checkout", g, branch_name, "ValueError", EmptyStr)
           ELSE /\ pops' = [pops EXCEPT ![g] =
                     [P EXCEPT
                        !.current_node = node,
                        !.current_branch =
                            IF branch_name \in P.branches THEN branch_name
                            ELSE players[node].branch_name]]
                /\ res' = Result("checkout", g, branch_name, "ok", EmptyStr)
        /\ UNCHANGED <<players, attaches>>

\* Population.checkout(name) of core.py (population.py holds the same method,
\* raising KeyError where this one raises ValueError).
checkout(g, branch_name) ==
    LET P == pops[g]
        node == Get(P.nodes, branch_name)
    IN  /\ Callable(g)
        /\ IF branch_name \notin Keys(P.nodes)
           THEN /\ pops' = pops
                /\ res' = Result("checkout", g, branch_name, "ValueError", EmptyStr)
           ELSE /\ pops' = [pops EXCEPT ![g] =
                     [P EXCEPT
                        !.current_node = node,
                        !.current_branch =
                            IF branch_name \in P.branches THEN branch_name
                            ELSE players[node].branch_name]]
                /\ res' = Result("checkout", g, branch_name, "ok", EmptyStr)
        /\ UNCHANGED <<players, attaches>>

\* detach that names the new root after the root of pop.
detach_at_root ==
    LET root_id == players[pops["pop"].root].id_str
    IN  /\ ~Live("detached_pop")
        /\ Len(players) < MaxPlayers
        /\ players' = Append(players, RootPlayer(root_id))
        /\ pops' = [pops EXCEPT !["detached_pop"] =
                      Population(Len(players) + 1, root_id)]
        /\ res' = Result("detach", "detached_pop", root_id, "ok", EmptyStr)
        /\ UNCHANGED attaches

\* detach whose graph takes pop's current node itself as its root instead of
\* constructing a new Player.
detach_shared_node ==
    LET root_id == players[pops["pop"].current_node].id_str
    IN  /\ ~Live("detached_pop")
        /\ Len(players) < MaxPlayers
        /\ players' = players
        /\ pops' = [pops EXCEPT !["detached_pop"] =
                      Population(pops["pop"].current_node, root_id)]
        /\ res' = Result("detach", "detached_pop", root_id, "ok", EmptyStr)
        /\ UNCHANGED attaches

\* Population.detach() on pop: a new Population whose root is a new Player
\* named after pop's current node.
detach ==
    LET root_id == players[pops["pop"].current_node].id_str
    IN  /\ ~Live("detached_pop")
        /\ Len(players) < MaxPlayers
        /\ players' = Append(players, RootPlayer(root_id))
        /\ pops' = [pops EXCEPT !["detached_pop"] =
                      Population(Len(players) + 1, root_id)]
        /\ res' = Result("detach", "detached_pop", root_id, "ok", EmptyStr)
        /\ UNCHANGED attaches

\* Population(root_id=root_id): the second graph constructed on its own rather
\* than detached, so that its root may be named after no node of pop.
new_population(root_id) ==
    /\ ~Live("detached_pop")
    /\ Len(players) < MaxPlayers
    /\ players' = Append(players, RootPlayer(root_id))
    /\ pops' = [pops EXCEPT !["detached_pop"] =
                  Population(Len(players) + 1, root_id)]
    /\ res' = Result("init", "detached_pop", root_id, "ok", EmptyStr)
    /\ UNCHANGED attaches

\* attach's first loop: every child x of the detached root is appended to
\* node.children and re-parented to node.
RECURSIVE Splice(_, _, _)
Splice(H, node, xs) ==
    IF xs = <<>> THEN H
    ELSE Splice([H EXCEPT ![node].children = Append(@, Head(xs)),
                          ![Head(xs)].parent = node],
                node, Tail(xs))

\* attach's renaming loop for one branch: the first of branch, branch + "1",
\* branch + "2", ... that is no key of nodes (i is the next suffix to try).
RECURSIVE new_branch(_, _, _, _)
new_branch(nodes, branch_name, candidate, i) ==
    IF candidate \in Keys(nodes)
    THEN new_branch(nodes, branch_name, branch_name \o Str(i), i + 1)
    ELSE candidate

\* attach's branch_renaming dict.
branch_renaming(nodes, branches) ==
    [b \in branches |-> new_branch(nodes, b, b, 1)]

\* attach's loop over population.nodes.items(), from item i on.  S is the state
\* the loop works on: the heap H, the receiving nodes and generations,
\* nodes_to_add, and status ("ok" until an exception is raised).
RECURSIVE attach_items(_, _, _, _, _)
attach_items(S, Q, renaming, auto_rehash, i) ==
    IF i > Len(Q.nodes) \/ S.status # "ok" THEN S
    ELSE
    LET id_str == Q.nodes[i].k
        player == Q.nodes[i].v
        new_id_str == IF auto_rehash THEN generate_id(S.H, EmptyStr, player)
                      ELSE id_str
        H1 == [S.H EXCEPT ![player].id_str = new_id_str]
        H2 == [H1 EXCEPT ![player].branch_name = renaming[@]]
    IN  IF id_str = S.H[Q.root].id_str
        THEN attach_items(S, Q, renaming, auto_rehash, i + 1)
        ELSE IF id_str \in Q.branches
        THEN attach_items(
                 [S EXCEPT !.nodes_to_add = Put(@, renaming[id_str], player)],
                 Q, renaming, auto_rehash, i + 1)
        ELSE IF H1[player].branch_name \notin DOMAIN renaming
        THEN [S EXCEPT !.H = H1, !.status = "KeyError"]
        ELSE IF id_str \in Keys(S.nodes)
        THEN [S EXCEPT !.H = H2, !.status = "ValueError"]
        ELSE IF ~add_gen_ok(S.generations, H2[player].generation)
        THEN [S EXCEPT !.H = H2, !.nodes = Put(@, new_id_str, player),
                       !.status = "IndexError"]
        ELSE attach_items(
                 [S EXCEPT !.H = H2,
                           !.nodes = Put(@, new_id_str, player),
                           !.generations = add_gen(@, player,
                                                   H2[player].generation)],
                 Q, renaming, auto_rehash, i + 1)

\* dict.update(other): the items of `other` put in their order.
RECURSIVE Update(_, _)
Update(d, other) ==
    IF other = <<>> THEN d
    ELSE Update(Put(d, Head(other).k, Head(other).v), Tail(other))

\* attach without its check of the root id: the lookup of the attachment
\* node raises KeyError when pop has no node of that name.
attach_unchecked(auto_rehash) ==
    LET root_id == players[pops["detached_pop"].root].id_str
    IN  /\ Callable("detached_pop")
        /\ root_id \notin Keys(pops["pop"].nodes)
        /\ attaches' = attaches + 1
        /\ res' = Result("attach", "pop", root_id, "KeyError", EmptyStr)
        /\ UNCHANGED <<players, pops>>

\* pop.attach(detached_pop, auto_rehash=auto_rehash)
attach(auto_rehash) ==
    LET P == pops["pop"]
        Q == pops["detached_pop"]
        root_id == players[Q.root].id_str
        node == Get(P.nodes, root_id)
        H1 == Splice(players, node, players[Q.root].children)
        renaming == branch_renaming(P.nodes, Q.branches)
        branches_to_add == {renaming[b] : b \in Q.branches}
        S == attach_items([H |-> H1, nodes |-> P.nodes,
                           generations |-> P.generations,
                           nodes_to_add |-> <<>>, status |-> "ok"],
                          Q, renaming, auto_rehash, 1)
    IN  /\ Callable("detached_pop")
        /\ attaches' = attaches + 1
        /\ IF root_id \notin Keys(P.nodes)
           THEN /\ UNCHANGED <<players, pops>>
                /\ res' = Result("attach", "pop", root_id, "ValueError", EmptyStr)
           ELSE /\ players' = S.H
                /\ pops' = [pops EXCEPT !["pop"] =
                     [P EXCEPT
                        !.nodes = IF S.status = "ok"
                                  THEN Update(S.nodes, S.nodes_to_add)
                                  ELSE S.nodes,
                        !.generations = S.generations,
                        !.branches = IF S.status = "ok"
                                     THEN P.branches \cup branches_to_add
                                     ELSE P.branches]]
                /\ res' = Result("attach", "pop", root_id, S.status, EmptyStr)

Next ==
    \/ \E g \in Graphs :
        \/ \E id_str \in CommitIds \cup {EmptyStr} \cup Known(g), mp \in Payloads :
               commit(g, mp, id_str)
        \/ \E branch_name \in BranchNames \cup Known(g) : branch(g, branch_name)
        \/ branch_no_args(g)
        \/ \E branch_name \in BranchNames \cup Known(g) : checkout(g, branch_name)
    \/ detach
    \/ \E root_id \in CommitIds : new_population(root_id)
    \/ \E auto_rehash \in BOOLEAN : attach(auto_rehash)

Spec == Init /\ [][Next]_vars

\* A second specification for the names of attach: the calls are those that
\* succeed on a graph that knows the name or not, and the detached graph is
\* also offered the name that attach's renaming makes of "b".
SuffixedNames == {<<"b", "1">>}

InputNames(g) == IF g = "detached_pop" THEN SuffixedNames ELSE {}

NextAttach ==
    \/ \E g \in Graphs :
        \/ \E id_str \in {EmptyStr} \cup InputNames(g), mp \in Payloads :
               commit(g, mp, id_str)
        \/ \E branch_name \in BranchNames \cup InputNames(g) :
               branch(g, branch_name)
        \/ \E branch_name \in Known(g) : checkout(g, branch_name)
    \/ detach
    \/ \E auto_rehash \in BOOLEAN : attach(auto_rehash)

SpecAttach == Init /\ [][NextAttach]_vars

----------------------------------------------------------------------------
(* Traversals of core.py: read-only, so operators over the heap H and a      *)
(* Population P.  Each returns what the call yields (ret, the objects in     *)
(* order) or the exception it raises (status).                               *)

Yield(ret) == [status |-> "ok", ret |-> ret]

Raise(exception) == [status |-> exception, ret |-> <<>>]

\* Population.__get_commits: __get_commit of every name, in order.
RECURSIVE get_commits(_, _)
get_commits(P, id_strs) ==
    IF id_strs = <<>> THEN Yield(<<>>)
    ELSE IF Head(id_strs) \notin Keys(P.nodes) THEN Raise("ValueError")
    ELSE LET rest == get_commits(P, Tail(id_strs))
         IN  IF rest.status # "ok" THEN rest
             ELSE Yield(<<Get(P.nodes, Head(id_strs))>> \o rest.ret)

\* The loop of __get_commit_history: the names from object c (the local
\* `commit`) up the parent links, until the parent is None.
RECURSIVE history(_, _)
history(H, c) ==
    IF c = None THEN <<>>
    ELSE <<H[c].id_str>> \o history(H, H[c].parent)

\* Population.__get_commit_history(id_str).
get_commit_history(H, P, id_str) ==
    IF id_str = EmptyStr THEN Yield(history(H, P.current_node))
    ELSE IF id_str \notin Keys(P.nodes) THEN Raise("KeyError")
    ELSE Yield(history(H, Get(P.nodes, id_str)))

\* walk_lineage that keeps the last name of the history.
walk_lineage_to_root(H, P, name) ==
    LET h == get_commit_history(H, P, name)
    IN  IF h.status # "ok" THEN h ELSE get_commits(P, h.ret)

\* Population.walk_lineage(name): the commits of the history but its last.
walk_lineage(H, P, name) ==
    LET h == get_commit_history(H, P, name)
    IN  IF h.status # "ok" THEN h
        ELSE get_commits(P, SubSeq(h.ret, 1, Len(h.ret) - 1))

\* walk_gen that counts the generations from one.
walk_gen_one_before(P, gen) ==
    LET n == Len(P.generations)
        g1 == gen - 1
    IN  IF g1 >= n \/ g1 < 0 - n THEN Raise("IndexError")
        ELSE Yield(P.generations[(IF g1 < 0 THEN g1 + n ELSE g1) + 1])

\* Population.walk_gen(gen): self.generations[gen], a Python list index (a
\* negative gen counts from the end, index i is sequence index i + 1).
walk_gen(P, gen) ==
    LET n == Len(P.generations)
    IN  IF gen >= n \/ gen < 0 - n THEN Raise("IndexError")
        ELSE Yield(P.generations[(IF gen < 0 THEN gen + n ELSE gen) + 1])

\* Population.__get_descendents(id_str) at recursion depth `depth`: the name
\* of the commit id_str resolves to, then the descendents of each of its
\* children, each looked up by its name.  A recursion deeper than the number
\* of objects has a name twice on its stack and never returns: Python ends it
\* with RecursionError.
RECURSIVE get_descendents(_, _, _, _)
RECURSIVE extend_descendents(_, _, _, _, _)
get_descendents(H, P, id_str, depth) ==
    IF depth > Len(H) THEN Raise("RecursionError")
    ELSE IF id_str # EmptyStr /\ id_str \notin Keys(P.nodes) THEN Raise("KeyError")
    ELSE LET c == IF id_str = EmptyStr THEN P.current_node
                  ELSE Get(P.nodes, id_str)
         IN  extend_descendents(H, P, <<H[c].id_str>>, H[c].children, depth)

\* The loop of __get_descendents over the children cs still to visit.
extend_descendents(H, P, names, cs, depth) ==
    IF cs = <<>> THEN Yield(names)
    ELSE LET d == get_descendents(H, P, H[Head(cs)].id_str, depth + 1)
         IN  IF d.status # "ok" THEN d
             ELSE extend_descendents(H, P, names \o d.ret, Tail(cs), depth)

\* Population.walk(): the commits of the descendents of the root's name, but
\* the first.
walk(H, P) ==
    LET d == get_descendents(H, P, H[P.root].id_str, 0)
    IN  IF d.status # "ok" THEN d ELSE get_commits(P, Tail(d.ret))

----------------------------------------------------------------------------
(* Vocabulary of the properties *)

\* The Player objects graph P holds: its root and the values of its index.
NodesIn(P) == {P.root} \cup {P.nodes[i].v : i \in DOMAIN P.nodes}

\* The ids of the nodes of P, in heap H.
NodeIds(H, P) == {H[o].id_str : o \in NodesIn(P)}

\* The objects of the heap.
Objects == 1..Len(players)

\* The default branch name the unit tests expect of a new graph.
MainBranch == <<"main">>

\* The elements of a sequence, and a sequence that holds none of them twice.
Range(seq) == {seq[i] : i \in DOMAIN seq}

NoDuplicates(seq) == \A i, j \in DOMAIN seq : seq[i] = seq[j] => i = j

\* The nodes of P that have a parent: all but roots.
NonRoot(H, P) == {n \in NodesIn(P) : H[n].parent # None}

\* The objects from o up the parent links, o first, without the last one
\* (the one that has no parent).
RECURSIVE ParentChain(_, _)
ParentChain(H, o) ==
    IF H[o].parent = None THEN <<>> ELSE <<o>> \o ParentChain(H, H[o].parent)

\* The number of parent links from o to an object without a parent.
Depth(H, o) == Len(ParentChain(H, o))

\* The object without a parent that the parent links of o lead to.
RECURSIVE TopOf(_, _)
TopOf(H, o) == IF H[o].parent = None THEN o ELSE TopOf(H, H[o].parent)

\* What a traversal yields: nothing when it raises.
Yielded(w) == IF w.status = "ok" THEN Range(w.ret) ELSE {}

----------------------------------------------------------------------------
(* Properties *)

\* C1: in every graph, no two distinct nodes have the same id and no branch
\* name is the id of a node (branch names are a set, so no two are equal).
C1_OneNamespace ==
    \A g \in Graphs : Live(g) =>
        /\ \A o1, o2 \in NodesIn(pops[g]) :
               players[o1].id_str = players[o2].id_str => o1 = o2
        /\ pops[g].branches \cap NodeIds(players, pops[g]) = {}

\* C2: a successful commit constructs exactly one object, the new node; its
\* parent is the node that was current, its generation is that node's plus
\* one and its branch_name is the current branch; the new node becomes the
\* current node, the current branch keeps its name and resolves to the new
\* node, and no other object changes but the parent's children list.
C2_CommitCreatesChild ==
    [][(res'.op = "commit" /\ res'.status = "ok") =>
        LET g == res'.g
            P == pops[g]
            P2 == pops'[g]
            new == Len(players')
        IN  /\ Len(players') = Len(players) + 1
            /\ NodesIn(P2) \ NodesIn(P) = {new}
            /\ players'[new].parent = P.current_node
            /\ players'[new].generation =
                   players[P.current_node].generation + 1
            /\ players'[new].branch_name = P.current_branch
            /\ players'[new].id_str = res'.ret
            /\ Get(P2.nodes, res'.ret) = new
            /\ P2.current_node = new
            /\ P2.current_branch = P.current_branch
            /\ P.current_branch \in Keys(P2.nodes)
            /\ Get(P2.nodes, P.current_branch) = new
            /\ \A o \in Objects :
                   players'[o] =
                       IF o = P.current_node
                       THEN [players[o] EXCEPT !.children = Append(@, new)]
                       ELSE players[o]
      ]_vars

\* C2's case: a commit has succeeded from a checked-out node that was not the
\* tip of its branch (the parent already had an indexed child on that branch).
C2_Witness ==
    /\ res.op = "commit"
    /\ res.status = "ok"
    /\ LET P == pops[res.g]
           new == P.current_node
           parent == players[new].parent
       IN  \E i \in DOMAIN players[parent].children :
               LET sib == players[parent].children[i]
               IN  /\ sib # new
                   /\ sib \in NodesIn(P)
                   /\ players[sib].branch_name = players[new].branch_name

\* C3: a commit whose explicit id is the id of a node of the graph or the name
\* of one of its branches raises ValueError and leaves the index as it was.
C3_DuplicateIdRejected ==
    [][(/\ res'.op = "commit"
        /\ res'.arg # EmptyStr
        /\ res'.arg \in NodeIds(players, pops[res'.g]) \cup pops[res'.g].branches)
       => /\ res'.status = "ValueError"
          /\ pops'[res'.g].nodes = pops[res'.g].nodes
      ]_vars

\* C4: a commit that raises ValueError leaves the graphs and every children
\* list as they were.
C4_FailedCommitChangesNothing ==
    [][(res'.op = "commit" /\ res'.status = "ValueError") =>
        /\ pops' = pops
        /\ \A o \in Objects : players'[o].children = players[o].children
      ]_vars

\* C5: every node of a graph that has a parent is one generation below its
\* parent, and a node without a parent (the root) is in generation 0.
C5_DepthConsistent ==
    \A g \in Graphs : Live(g) =>
        \A n \in NodesIn(pops[g]) :
            IF players[n].parent = None
            THEN players[n].generation = 0
            ELSE players[n].generation =
                     players[players[n].parent].generation + 1

\* C6: a graph that has just been constructed holds its root alone (no parent,
\* no payload) and one branch, "main", which is not the root id and points at
\* the root; the root is current, "main" is the current branch, the index has
\* the two entries root id and "main", and no generation holds a node.
C6_NewGraph ==
    (res.op \in {"init", "detach"}) =>
        LET P == pops[res.g]
            root_id == players[P.root].id_str
        IN  /\ NodesIn(P) = {P.root}
            /\ players[P.root].parent = None
            /\ players[P.root].model_parameters = "None"
            /\ P.branches = {MainBranch}
            /\ MainBranch # root_id
            /\ Keys(P.nodes) = {root_id, MainBranch}
            /\ Cardinality(Keys(P.nodes)) = 2
            /\ Get(P.nodes, MainBranch) = P.root
            /\ P.current_node = P.root
            /\ P.current_branch = MainBranch
            /\ \A i \in DOMAIN P.generations : P.generations[i] = <<>>

\* C7: the index of a graph maps the root id to the root node.
C7_RootIdIsRoot ==
    \A g \in Graphs : Live(g) =>
        LET root_id == players[pops[g].root].id_str
        IN  /\ root_id \in Keys(pops[g].nodes)
            /\ Get(pops[g].nodes, root_id) = pops[g].root

\* C8: a successful branch(name) makes name a branch that resolves to the
\* current node and changes nothing else: no object is constructed or
\* changed, the current node and branch stay, every other key of the index
\* resolves as before, and the generations and the other graph are as before.
C8_BranchAddsAlias ==
    [][(res'.op = "branch" /\ res'.status = "ok") =>
        LET g == res'.g
            name == res'.arg
            P == pops[g]
            P2 == pops'[g]
        IN  /\ players' = players
            /\ P2.branches = P.branches \cup {name}
            /\ Keys(P2.nodes) = Keys(P.nodes) \cup {name}
            /\ Get(P2.nodes, name) = P.current_node
            /\ \A key \in Keys(P.nodes) \ {name} :
                   Get(P2.nodes, key) = Get(P.nodes, key)
            /\ P2.current_node = P.current_node
            /\ P2.current_branch = P.current_branch
            /\ P2.generations = P.generations
            /\ P2.root = P.root
            /\ \A h \in Graphs \ {g} : pops'[h] = pops[h]
      ]_vars

\* C8's case: a branch has been made at a committed node while the graph had
\* another branch, which is not the current one.
C8_Witness ==
    /\ res.op = "branch"
    /\ res.status = "ok"
    /\ LET P == pops[res.g]
       IN  /\ P.current_node # P.root
           /\ Get(P.nodes, res.arg) = P.current_node
           /\ P.current_branch # res.arg
           /\ Cardinality(P.branches) >= 2

\* C9: branch(name) with the name of a branch or the id of a node of the
\* graph raises ValueError and leaves the graphs and the objects as they were.
C9_BranchExistsRejected ==
    [][(/\ res'.op = "branch"
        /\ res'.arg \in NodeIds(players, pops[res'.g]) \cup pops[res'.g].branches)
       => /\ res'.status = "ValueError"
          /\ pops' = pops
          /\ players' = players
      ]_vars

\* C10: branch() without a name returns the name of the current branch and
\* leaves the graphs and the objects as they were.
C10_BranchNoArgs ==
    [][(res'.op = "branch()") =>
        /\ res'.status = "ok"
        /\ res'.ret = pops[res'.g].current_branch
        /\ pops' = pops
        /\ players' = players
      ]_vars

\* C11: checkout(name) with the name of a branch of the graph succeeds, makes
\* name the current branch and the node name resolves to the current node, and
\* changes nothing else: the index, the branch set, the generations, the
\* objects and the other graph are as before.
C11_CheckoutBranch ==
    [][(res'.op = "checkout" /\ res'.arg \in pops[res'.g].branches) =>
        LET g == res'.g
            name == res'.arg
            P == pops[g]
            P2 == pops'[g]
        IN  /\ res'.status = "ok"
            /\ name \in Keys(P.nodes)
            /\ P2.current_branch = name
            /\ P2.current_node = Get(P.nodes, name)
            /\ P2.nodes = P.nodes
            /\ P2.branches = P.branches
            /\ P2.generations = P.generations
            /\ P2.root = P.root
            /\ players' = players
            /\ \A h \in Graphs \ {g} : pops'[h] = pops[h]
      ]_vars

\* C12: checkout(name) with the id of a node of the graph that is no branch
\* name succeeds, makes that node the current node and the node's branch_name
\* the current branch, and changes nothing else; a commit that succeeds
\* right after it constructs a child of that node and makes that branch
\* resolve to the child.
C12_CheckoutNode ==
    [][/\ (res'.op = "checkout" /\
            res'.arg \in NodeIds(players, pops[res'.g]) \ pops[res'.g].branches) =>
            LET g == res'.g
                P == pops[g]
                P2 == pops'[g]
            IN  /\ res'.status = "ok"
                /\ P2.current_node \in NodesIn(P)
                /\ players[P2.current_node].id_str = res'.arg
                /\ P2.current_branch = players[P2.current_node].branch_name
                /\ P2.nodes = P.nodes
                /\ P2.branches = P.branches
                /\ P2.generations = P.generations
                /\ players' = players
                /\ \A h \in Graphs \ {g} : pops'[h] = pops[h]
       /\ (/\ res.op = "checkout" /\ res.status = "ok"
           /\ res.arg \notin pops[res.g].branches
           /\ res'.op = "commit" /\ res'.status = "ok" /\ res'.g = res.g) =>
            LET P == pops[res.g]
                P2 == pops'[res.g]
                new == Len(players')
                n == P.current_node
            IN     /\ players[n].id_str = res.arg
                   /\ players'[new].parent = n
                   /\ players'[n].children = Append(players[n].children, new)
                   /\ players'[new].branch_name = players[n].branch_name
                   /\ P2.current_branch = players[n].branch_name
                   /\ Get(P2.nodes, players[n].branch_name) = new
      ]_vars

\* C12's case: a node that is not the tip of its branch has been checked out
\* by its id while another branch was current, and a commit can follow.
C12_Witness ==
    /\ res.op = "checkout"
    /\ res.status = "ok"
    /\ LET P == pops[res.g]
       IN  /\ res.arg \notin P.branches
           /\ players[P.current_node].id_str = res.arg
           /\ P.current_node # P.root
           /\ P.current_branch \in Keys(P.nodes)
           /\ Get(P.nodes, P.current_branch) # P.current_node
           /\ Len(players) < MaxPlayers

\* C13: checkout(name) with a name that is neither the id of a node of the
\* graph nor one of its branches raises ValueError and leaves the graphs and
\* the objects as they were.
C13_CheckoutUnknown ==
    [][(/\ res'.op = "checkout"
        /\ res'.arg \notin NodeIds(players, pops[res'.g]) \cup pops[res'.g].branches)
       => /\ res'.status = "ValueError"
          /\ pops' = pops
          /\ players' = players
      ]_vars

\* C13's case: an unknown name has been refused while a committed node was
\* current.
C13_Witness ==
    /\ res.op = "checkout"
    /\ res.status = "ValueError"
    /\ LET P == pops[res.g]
       IN  /\ res.arg \notin NodeIds(players, P) \cup P.branches
           /\ P.current_node # P.root
           /\ Cardinality(P.branches) >= 2

\* C14: for every name x the index of a graph resolves (a node id or a
\* branch), walk_lineage(x) yields as many nodes as the generation of the node
\* x resolves to.
C14_LineageLength ==
    \A g \in Graphs : Callable(g) =>
        \A x \in Keys(pops[g].nodes) :
            LET w == walk_lineage(players, pops[g], x)
            IN  /\ w.status = "ok"
                /\ Len(w.ret) = players[Get(pops[g].nodes, x)].generation

\* C15: walk_lineage(x) yields the node x resolves to, then its parent, and
\* so on along the parent links, without the last node of the walk (the
\* root), and never the root of the graph; without a name it starts at the
\* current node.
C15_LineageFollowsParents ==
    \A g \in Graphs : Callable(g) =>
        \A x \in Keys(pops[g].nodes) \cup {EmptyStr} :
            LET P == pops[g]
                start == IF x = EmptyStr THEN P.current_node ELSE Get(P.nodes, x)
                w == walk_lineage(players, P, x)
            IN  /\ w.status = "ok"
                /\ w.ret = ParentChain(players, start)
                /\ P.root \notin Range(w.ret)

\* C16: walk() yields every node of the graph that has a parent, each once,
\* and never the root.
C16_FlattenYieldsAll ==
    \A g \in Graphs : Callable(g) =>
        LET w == walk(players, pops[g])
        IN  /\ w.status = "ok"
            /\ NoDuplicates(w.ret)
            /\ Range(w.ret) = NonRoot(players, pops[g])
            /\ pops[g].root \notin Range(w.ret)

\* C17: a node of the graph other than the root is yielded by walk() iff its
\* parent links lead to the root of the graph, and the root is yielded
\* neither by walk() nor by its own walk_lineage.
C17_FlattenLineageDuality ==
    \A g \in Graphs : Callable(g) =>
        LET P == pops[g]
            flat == Yielded(walk(players, P))
        IN  /\ \A n \in NodesIn(P) \ {P.root} :
                   (n \in flat) <=> (TopOf(players, n) = P.root)
            /\ P.root \notin flat
            /\ P.root \notin Range(ParentChain(players, P.root))

\* C18: for every d >= 1 that walk_gen accepts (a generation the graph has),
\* walk_gen(d) yields exactly the nodes of the graph whose depth is d, each
\* once: the nodes that are d parent links below a root.
C18_GenerationExact ==
    \A g \in Graphs : Callable(g) =>
        \A d \in 1..(Len(pops[g].generations) - 1) :
            LET w == walk_gen(pops[g], d)
            IN  /\ w.status = "ok"
                /\ NoDuplicates(w.ret)
                /\ Range(w.ret) =
                       {n \in NonRoot(players, pops[g]) : Depth(players, n) = d}

\* C19 as claimed: walk_gen() without a generation yields the nodes whose
\* generation is that of the current node.
C19_GenerationOfCurrent ==
    \A g \in Graphs : Callable(g) =>
        LET P == pops[g]
            w == walk_gen(P, -1)
        IN  /\ w.status = "ok"
            /\ Range(w.ret) =
                   {n \in NonRoot(players, P) :
                        players[n].generation = players[P.current_node].generation}

\* C19 as amended: walk_gen() without a generation yields the nodes of the
\* last generation the graph has recorded, whichever node is current: every
\* node it yields, each once, has a parent and the greatest generation
\* recorded, no node of the graph has a greater one, and every node of the
\* graph of that generation but a root is yielded.
C19_GenerationLast ==
    \A g \in Graphs : Callable(g) =>
        LET P == pops[g]
            w == walk_gen(P, -1)
            last == Len(P.generations) - 1
        IN  /\ w.status = "ok"
            /\ NoDuplicates(w.ret)
            /\ \A n \in Range(w.ret) :
                   players[n].generation = last /\ players[n].parent # None
            /\ \A n \in NodesIn(P) : players[n].generation <= last
            /\ {n \in NonRoot(players, P) : players[n].generation = last}
                   \subseteq Range(w.ret)

\* C19's case: the current node is a committed node above the last
\* generation, which holds a node.
C19_Witness ==
    \E g \in Graphs :
        /\ Callable(g)
        /\ LET P == pops[g]
           IN  /\ P.current_node # P.root
               /\ players[P.current_node].generation < Len(P.generations) - 1
               /\ walk_gen(P, -1).status = "ok"
               /\ walk_gen(P, -1).ret # <<>>
               /\ P.current_node \notin Range(walk_gen(P, -1).ret)

\* C20: detach() constructs one object, the root of a new graph, named after
\* the current node of the source graph; the new graph holds that root alone
\* (every entry of its index and every one of its branches resolves to the
\* root, which has no parent and no children, and no generation holds a
\* node), and the source graph and every object of it are as before.
C20_DetachNewGraph ==
    [][(res'.op = "detach") =>
        LET P == pops["pop"]
            Q == pops'["detached_pop"]
        IN  /\ Len(players') = Len(players) + 1
            /\ Q.root = Len(players')
            /\ players'[Q.root].id_str = players[P.current_node].id_str
            /\ players'[Q.root].parent = None
            /\ players'[Q.root].children = <<>>
            /\ NodesIn(Q) = {Q.root}
            /\ Cardinality(Q.branches) <= 1
            /\ \A b \in Q.branches :
                   b \in Keys(Q.nodes) /\ Get(Q.nodes, b) = Q.root
            /\ Q.current_node = Q.root
            /\ \A i \in DOMAIN Q.generations : Q.generations[i] = <<>>
            /\ pops'["pop"] = P
            /\ \A o \in Objects : players'[o] = players[o]
      ]_vars

\* C20's case: a graph has been detached at a committed node of a source
\* graph that has several branches.
C20_Witness ==
    /\ res.op = "detach"
    /\ LET P == pops["pop"]
           Q == pops["detached_pop"]
       IN  /\ P.current_node # P.root
           /\ Cardinality(P.branches) >= 2
           /\ players[Q.root].id_str = players[P.current_node].id_str
           /\ players[Q.root].id_str # players[P.root].id_str

\* The objects of graph P: those whose parent links lead to P's root.
Owned(H, P) == {o \in DOMAIN H : TopOf(H, o) = P.root}

\* C21: between detach and attach, a commit, branch or checkout on one of
\* the two graphs leaves the other graph as it was: its node index, branch
\* set, current node and branch, generation lists, and every object of it
\* (so the children list of the node the detached graph was split at).
C21_NoInterference ==
    [][(/\ attaches = 0
        /\ Live("detached_pop")
        /\ res'.op \in {"commit", "branch", "branch()", "checkout"}) =>
        \A h \in Graphs \ {res'.g} :
            /\ pops'[h] = pops[h]
            /\ \A o \in Owned(players, pops[h]) : players'[o] = players[o]
      ]_vars

\* C21's case: after the detach both graphs have committed, the detached
\* graph last, and the source graph holds a node younger than the detached
\* root.
C21_Witness ==
    /\ attaches = 0
    /\ Live("detached_pop")
    /\ res.op = "commit" /\ res.status = "ok" /\ res.g = "detached_pop"
    /\ LET P == pops["pop"]
           Q == pops["detached_pop"]
       IN  /\ \E o \in Owned(players, P) : o > Q.root
           /\ Q.current_node # Q.root
           /\ players[Q.current_node].parent = Q.root

\* C22: attach of a graph whose root id is no key of the receiving graph's
\* node index raises ValueError and changes neither graph: no object and no
\* field of either Population.
C22_AttachUnknownRoot ==
    [][(/\ res'.op = "attach"
        /\ players[pops["detached_pop"].root].id_str
               \notin Keys(pops["pop"].nodes)) =>
        /\ res'.status = "ValueError"
        /\ pops' = pops
        /\ players' = players
      ]_vars

\* C22's case: the attach of a graph that holds committed nodes and a branch
\* has been refused because the receiving graph has no node named as its
\* root.
C22_Witness ==
    /\ res.op = "attach" /\ res.status = "ValueError"
    /\ LET P == pops["pop"]
           Q == pops["detached_pop"]
       IN  /\ players[Q.root].id_str \notin Keys(P.nodes)
           /\ Cardinality(NodesIn(Q)) >= 2
           /\ Cardinality(Q.branches) >= 2

\* The name the specification gives branch b of an attached graph in the
\* receiving graph P: b when P knows no node and no branch of that name,
\* otherwise b followed by the least k >= 1 that makes an unknown name.
RECURSIVE LeastUnused(_, _, _)
LeastUnused(used, b, k) ==
    IF b \o Str(k) \in used THEN LeastUnused(used, b, k + 1) ELSE b \o Str(k)

Renamed(P, b) ==
    LET used == Keys(P.nodes) \cup P.branches
    IN  IF b \in used THEN LeastUnused(used, b, 1) ELSE b

\* C23: after a successful attach, every branch b of the attached graph is
\* a branch of the receiving graph under the name Renamed(b), and under
\* that name the receiving graph's index holds the node b resolved to in the
\* attached graph.
C23_BranchesCarriedOver ==
    [][(res'.op = "attach" /\ res'.status = "ok") =>
        LET P == pops["pop"]
            Q == pops["detached_pop"]
            P2 == pops'["pop"]
        IN  \A b \in Q.branches :
                /\ Renamed(P, b) \in P2.branches
                /\ Renamed(P, b) \in Keys(P2.nodes)
                /\ b \in Keys(Q.nodes)
                /\ Get(P2.nodes, Renamed(P, b)) = Get(Q.nodes, b)
      ]_vars

\* C24: a successful attach keeps every branch of the receiving graph on
\* its node, adds one branch per branch of the attached graph, gives no
\* renamed branch the id of a node of the attached graph, and leaves every
\* node of either graph in the index under its id.
C24_AttachKeepsEntries ==
    [][(res'.op = "attach" /\ res'.status = "ok") =>
        LET P == pops["pop"]
            Q == pops["detached_pop"]
            P2 == pops'["pop"]
            added == P2.branches \ P.branches
            carried == {i \in DOMAIN Q.nodes :
                           /\ Q.nodes[i].k \notin Q.branches
                           /\ Q.nodes[i].v # Q.root}
        IN  /\ \A b \in P.branches :
                   b \in Keys(P2.nodes) /\ Get(P2.nodes, b) = Get(P.nodes, b)
            /\ Cardinality(added) = Cardinality(Q.branches)
            /\ \A nb \in added \ Q.branches : \A i \in carried :
                   players'[Q.nodes[i].v].id_str # nb
            /\ \A k \in Keys(P.nodes) : Get(P2.nodes, k) = Get(P.nodes, k)
            /\ \A i \in carried :
                   LET id == players'[Q.nodes[i].v].id_str
                   IN  id \in Keys(P2.nodes) /\ Get(P2.nodes, id) = Q.nodes[i].v
      ]_vars

\* C25: after a successful attach the receiving graph has as many nodes as
\* it had plus those of the attached graph less its root, walk yields the
\* non-root nodes of both graphs once each, and every node the receiving
\* graph had is still in it with its id, parent, depth, payload and branch.
C25_AttachAddsNodes ==
    [][(res'.op = "attach" /\ res'.status = "ok") =>
        LET P == pops["pop"]
            Q == pops["detached_pop"]
            P2 == pops'["pop"]
            w == walk(players', P2)
        IN  /\ Cardinality(NodesIn(P2)) =
                   Cardinality(NodesIn(P)) + Cardinality(NodesIn(Q)) - 1
            /\ w.status = "ok"
            /\ Range(w.ret) = NonRoot(players, P) \cup NonRoot(players, Q)
            /\ NoDuplicates(w.ret)
            /\ \A n \in NodesIn(P) :
                   /\ n \in NodesIn(P2)
                   /\ players'[n].id_str = players[n].id_str
                   /\ players'[n].parent = players[n].parent
                   /\ players'[n].generation = players[n].generation
                   /\ Depth(players', n) = Depth(players, n)
                   /\ players'[n].model_parameters = players[n].model_parameters
                   /\ players'[n].branch_name = players[n].branch_name
      ]_vars

\* C26: after a successful attach, every non-root node of the attached graph
\* that was k parent links below its root is k + d links below the root of
\* the receiving graph, d being the depth of the attachment node, carries
\* k + d as its generation, and is yielded by walk_gen(j) exactly for
\* j = k + d.
C26_AttachRebasesDepth ==
    [][(res'.op = "attach" /\ res'.status = "ok") =>
        LET P == pops["pop"]
            Q == pops["detached_pop"]
            P2 == pops'["pop"]
            node == Get(P.nodes, players[Q.root].id_str)
            d == Depth(players, node)
        IN  \A o \in NonRoot(players, Q) :
                LET k == Depth(players, o)
                IN  /\ Depth(players', o) = k + d
                    /\ players'[o].generation = k + d
                    /\ k + d < Len(P2.generations)
                    /\ \A j \in 0..(Len(P2.generations) - 1) :
                           o \in Yielded(walk_gen(P2, j)) <=> j = k + d
      ]_vars

\* C27: attach of a graph that has a node, neither its root nor under a
\* branch key, whose key is a key of the receiving index raises ValueError
\* and changes nothing: the receiving Population and every object are as
\* before the call.
C27_AttachCollisionAtomic ==
    [][(/\ res'.op = "attach"
        /\ LET P == pops["pop"]
               Q == pops["detached_pop"]
           IN  /\ players[Q.root].id_str \in Keys(P.nodes)
               /\ \E i \in DOMAIN Q.nodes :
                      /\ Q.nodes[i].k # players[Q.root].id_str
                      /\ Q.nodes[i].k \notin Q.branches
                      /\ Q.nodes[i].k \in Keys(P.nodes)) =>
        /\ res'.status = "ValueError"
        /\ pops' = pops
        /\ players' = players
      ]_vars

----------------------------------------------------------------------------
(* phylogenetic.py: the Population that keeps a payload only when too many *)
(* ancestors lack theirs.  Its specification uses the same variables:      *)
(* players is the heap of its Player objects, pops["pop"] the Population,  *)
(* res the last call.                                                      *)

MaxSparsity == 3

MaxTreePlayers == 6

Hyperparameters == {"h"}

\* What get_nbr_unsaved_ancestors returns for a root without payload: the
\* source's 99999999999999999999999, cut to a number that exceeds every
\* sparsity and every sum of the model and fits the checker's integers.
UnsavedOfRoot == 1000000

\* Player(parent, model_parameters, id_str, hyperparameters, contributors,
\* generation) of phylogenetic.py.
TreePlayer(parent, model_parameters, id_str, hyperparameters, contributors, generation) ==
    [parent |-> parent,
     children |-> <<>>,
     model_parameters |-> model_parameters,
     contributors |-> contributors,
     id_str |-> id_str,
     generation |-> generation,
     hyperparameters |-> hyperparameters]

\* add_child that ignores new_generation: the child is always one generation
\* below self.
tree_add_child_next_generation(H, self, model_parameters, id_str, hyperparameters, contributors, new_generation) ==
    LET child == TreePlayer(self, model_parameters, id_str, hyperparameters,
                            contributors, H[self].generation + 1)
    IN  Append([H EXCEPT ![self].children = Append(@, Len(H) + 1)], child)

\* self.add_child(...) on heap H: the child is constructed one generation
\* below self, moved to self's generation when new_generation is false, and
\* appended to self.children.
tree_add_child(H, self, model_parameters, id_str, hyperparameters, contributors, new_generation) ==
    LET generation == IF new_generation THEN H[self].generation + 1
                      ELSE H[self].generation
        child == TreePlayer(self, model_parameters, id_str, hyperparameters,
                            contributors, generation)
    IN  Append([H EXCEPT ![self].children = Append(@, Len(H) + 1)], child)

\* A sum that stops at the first element.
HeadOnly(xs) == IF xs = <<>> THEN 0 ELSE Head(xs)

RECURSIVE SumSeq(_)
SumSeq(xs) == IF xs = <<>> THEN 0 ELSE Head(xs) + SumSeq(Tail(xs))

\* get_nbr_unsaved_ancestors that forgets the parent and counts the
\* contributors only.
RECURSIVE unsaved_of_contributors(_, _)
unsaved_of_contributors(H, self) ==
    IF H[self].model_parameters # "None" THEN 0
    ELSE IF H[self].parent = None THEN UnsavedOfRoot
    ELSE 1 + SumSeq([i \in DOMAIN H[self].contributors |->
                        unsaved_of_contributors(H, H[self].contributors[i])])

\* Player.get_nbr_unsaved_ancestors
RECURSIVE get_nbr_unsaved_ancestors(_, _)
get_nbr_unsaved_ancestors(H, self) ==
    IF H[self].model_parameters # "None" THEN 0
    ELSE IF H[self].parent = None THEN UnsavedOfRoot
    ELSE LET ancestors == <<H[self].parent>> \o H[self].contributors
         IN  1 + SumSeq([i \in DOMAIN ancestors |->
                            get_nbr_unsaved_ancestors(H, ancestors[i])])

\* Player.rebuild_model_parameters(): the stored parameters when there are
\* some; otherwise the contributors are rebuilt, then the parent, and then
\* the step function is looked up as self.tree.step_function.  No Player has
\* an attribute tree, so the lookup raises AttributeError.
RECURSIVE rebuild_model_parameters(_, _)
rebuild_model_parameters(H, self) ==
    IF H[self].model_parameters # "None"
    THEN Yield(H[self].model_parameters)
    ELSE
    LET contributors_param ==
            [i \in DOMAIN H[self].contributors |->
                rebuild_model_parameters(H, H[self].contributors[i])]
        failed == {i \in DOMAIN contributors_param :
                      contributors_param[i].status # "ok"}
        parent_param == rebuild_model_parameters(H, H[self].parent)
    IN  IF failed # {}
        THEN contributors_param[CHOOSE i \in failed : \A j \in failed : i <= j]
        ELSE IF H[self].parent # None /\ parent_param.status # "ok"
        THEN parent_param
        ELSE Raise("AttributeError")

\* Population(sparsity=sparsity) of phylogenetic.py, its root being object 1.
TreePopulation(sparsity) ==
    [root |-> 1,
     sparsity |-> sparsity,
     nodes |-> <<[k |-> DefaultRootId, v |-> 1]>>,
     generations |-> << <<>> >>,
     branches |-> <<[k |-> DefaultRootId, v |-> 1]>>,
     current_node |-> 1,
     current_branch |-> DefaultRootId]

\* The id Population.__generate_id draws at random for the object that is
\* constructed next: a name no node has.
RandomId(H) == <<"#">> \o Str(Len(H) + 1)

InitTree ==
    \E sparsity \in 0..MaxSparsity :
        /\ players = <<TreePlayer(None, "None", DefaultRootId, "{}", <<>>, 0)>>
        /\ pops = [g \in Graphs |->
                     IF g = "pop" THEN TreePopulation(sparsity)
                     ELSE NoPopulation]
        /\ attaches = 0
        /\ res = Result("init", "pop", sparsity, "ok", EmptyStr)

\* pop.commit(model_parameters, hyperparameters, contributors, id_str) of
\* phylogenetic.py.
tree_commit(model_parameters, hyperparameters, contributors, id_str) ==
    LET P == pops["pop"]
        arg == [id_str |-> id_str, model_parameters |-> model_parameters,
                contributors |-> contributors]
        id == IF id_str = EmptyStr THEN RandomId(players) ELSE id_str
        child == Len(players) + 1
        H1 == tree_add_child(players, P.current_node, "None", id,
                             hyperparameters, contributors, TRUE)
        H2 == IF get_nbr_unsaved_ancestors(H1, child) > P.sparsity
              THEN [H1 EXCEPT ![child].model_parameters = model_parameters]
              ELSE H1
        gens == IF Len(P.generations) <= H2[child].generation
                THEN Append(P.generations, <<>>)
                ELSE P.generations
    IN  /\ Len(players) < MaxTreePlayers
        /\ IF id_str \in Keys(P.nodes)
           THEN /\ res' = Result("commit", "pop", arg, "ValueError", EmptyStr)
                /\ UNCHANGED <<players, pops>>
           ELSE /\ players' = H2
                /\ pops' = [pops EXCEPT !["pop"] =
                     [P EXCEPT
                        !.nodes = Put(@, id, child),
                        !.generations =
                            [gens EXCEPT ![H2[child].generation + 1] =
                                             Append(@, child)],
                        !.current_node = child,
                        !.branches = Put(@, P.current_branch, child)]]
                /\ res' = Result("commit", "pop", arg, "ok", id)
        /\ UNCHANGED attaches

\* pop.branch(branch_name, id_str) of phylogenetic.py: a node that copies
\* the parameters of the current node is added below it before the branch
\* name is tested.
tree_branch(branch_name, id_str) ==
    LET P == pops["pop"]
        arg == [id_str |-> id_str, branch_name |-> branch_name]
        id == IF id_str = EmptyStr THEN RandomId(players) ELSE id_str
        new_node == Len(players) + 1
        H1 == tree_add_child(players, P.current_node,
                             players[P.current_node].model_parameters, id,
                             players[P.current_node].hyperparameters, <<>>,
                             FALSE)
    IN  /\ Len(players) < MaxTreePlayers
        /\ IF id_str \in Keys(P.nodes)
           THEN /\ res' = Result("branch", "pop", arg, "ValueError", EmptyStr)
                /\ UNCHANGED <<players, pops>>
           ELSE IF branch_name \in Keys(P.branches)
           THEN /\ players' = H1
                /\ res' = Result("branch", "pop", arg, "ValueError", EmptyStr)
                /\ UNCHANGED pops
           ELSE /\ players' = H1
                /\ pops' = [pops EXCEPT !["pop"] =
                     [P EXCEPT !.branches = Put(@, branch_name, new_node),
                               !.nodes = Put(@, id, new_node)]]
                /\ res' = Result("branch", "pop", arg, "ok", id)
        /\ UNCHANGED attaches

\* pop.checkout(branch_name) of phylogenetic.py.
tree_checkout(branch_name) ==
    LET P == pops["pop"]
    IN  /\ IF branch_name \notin Keys(P.branches)
           THEN /\ res' = Result("checkout", "pop", branch_name, "KeyError",
                                 EmptyStr)
                /\ UNCHANGED pops
           ELSE /\ pops' = [pops EXCEPT !["pop"] =
                     [P EXCEPT !.current_branch = branch_name,
                               !.current_node = Get(P.branches, branch_name)]]
                /\ res' = Result("checkout", "pop", branch_name, "ok",
                                 EmptyStr)
        /\ UNCHANGED <<players, attaches>>

\* pop.current_node.rebuild_model_parameters(save, recursive).  save and
\* recursive are read only after the step function has returned, which it
\* never does: nothing is stored.
tree_rebuild(save, recursive) ==
    LET self == pops["pop"].current_node
        r == rebuild_model_parameters(players, self)
    IN  /\ res' = Result("rebuild_model_parameters", "pop",
                         [self |-> self, save |-> save,
                          recursive |-> recursive],
                         r.status, r.ret)
        /\ UNCHANGED <<players, pops, attaches>>

\* The contributors a commit is given: none, or the node some branch is at
\* (the latest version of another agent).
ContributorLists ==
    {<<>>} \cup {<<pops["pop"].branches[i].v>> :
                    i \in DOMAIN pops["pop"].branches}

NextTree ==
    \/ \E model_parameters \in Payloads \cup {"None"},
          hyperparameters \in Hyperparameters,
          contributors \in ContributorLists :
           tree_commit(model_parameters, hyperparameters, contributors,
                       EmptyStr)
    \/ \E branch_name \in BranchNames \cup Keys(pops["pop"].branches) :
           tree_branch(branch_name, EmptyStr)
    \/ \E branch_name \in BranchNames \cup Keys(pops["pop"].branches) :
           tree_checkout(branch_name)

SpecTree == InitTree /\ [][NextTree]_vars

\* A second specification of the same Population for the calls of
\* rebuild_model_parameters: commits, and rebuilds of the current node.
NextRebuild ==
    \/ \E model_parameters \in Payloads \cup {"None"},
          hyperparameters \in Hyperparameters,
          contributors \in ContributorLists :
           tree_commit(model_parameters, hyperparameters, contributors,
                       EmptyStr)
    \/ \E save \in BOOLEAN, recursive \in BOOLEAN :
           tree_rebuild(save, recursive)

SpecRebuild == InitTree /\ [][NextRebuild]_vars

\* C28: every node but the root has at most sparsity unsaved ancestors.
C28_SparsityBound ==
    \A o \in DOMAIN players :
        players[o].parent # None =>
            get_nbr_unsaved_ancestors(players, o) <= pops["pop"].sparsity

\* The graph is a linear chain of commits made from the root: object k + 1 is
\* the k-th commit, a child of object k without contributors, no branch has
\* been made, and the current node is the last commit.
IsChain(H, P) ==
    /\ \A o \in 2..Len(H) :
           /\ H[o].parent = o - 1
           /\ H[o].contributors = <<>>
           /\ H[o].generation = o - 1
    /\ Keys(P.branches) = {DefaultRootId}
    /\ P.current_node = Len(H)

\* The k-th commit of the chain has its parameters iff (k - 1) mod (s + 1) = 0.
EveryNthRetained(H, s) ==
    \A k \in 1..(Len(H) - 1) :
        (H[k + 1].model_parameters # "None") <=> ((k - 1) % (s + 1) = 0)

\* C29: on a linear chain of commits from the root in which the k-th commit
\* has parameters iff (k - 1) mod (sparsity + 1) = 0, a further commit that
\* passes parameters keeps that pattern, and the parameters it retains are
\* those it was passed (so every 4th commit retains them with sparsity 3,
\* and every commit with sparsity 0).
C29_ChainRetention ==
    [][(/\ res'.op = "commit" /\ res'.status = "ok"
        /\ res'.arg.model_parameters # "None"
        /\ res'.arg.contributors = <<>>
        /\ IsChain(players, pops["pop"])
        /\ EveryNthRetained(players, pops["pop"].sparsity)) =>
        LET s == pops'["pop"].sparsity
            new == Len(players')
        IN  /\ IsChain(players', pops'["pop"])
            /\ EveryNthRetained(players', s)
            /\ players'[new].model_parameters
                   \in {"None", res'.arg.model_parameters}
            /\ s = 0 => players'[new].model_parameters # "None"
      ]_vars

\* C29's case: with sparsity 3 the fifth commit of a chain has just been
\* made and is the second one that has its parameters.
C29_Witness ==
    /\ res.op = "commit" /\ res.status = "ok"
    /\ pops["pop"].sparsity = 3
    /\ Len(players) = 6
    /\ IsChain(players, pops["pop"])
    /\ EveryNthRetained(players, 3)
    /\ players[6].model_parameters # "None"
    /\ players[5].model_parameters = "None"

\* What a deterministic step function makes of the parameters of the parent,
\* the hyperparameters and the parameters of the contributors.
step_function(parent_param, hyperparameters, contributors_param) ==
    <<parent_param, hyperparameters, contributors_param>>

\* The parameters node o holds when every commit retains what it computes.
RECURSIVE Materialized(_, _)
Materialized(H, o) ==
    IF H[o].model_parameters # "None" THEN H[o].model_parameters
    ELSE step_function(Materialized(H, H[o].parent), H[o].hyperparameters,
                       [i \in DOMAIN H[o].contributors |->
                           Materialized(H, H[o].contributors[i])])

\* C30: for every node that has parameters or can be recomputed from nodes
\* that have them, rebuild_model_parameters returns the stored parameters,
\* or else the step function's value on the rebuilt parameters of the
\* parent, the node's hyperparameters and the rebuilt parameters of the
\* contributors.
C30_RebuildReturnsParameters ==
    \A o \in DOMAIN players :
        get_nbr_unsaved_ancestors(players, o) < UnsavedOfRoot =>
            LET r == rebuild_model_parameters(players, o)
            IN  /\ r.status = "ok"
                /\ r.ret = Materialized(players, o)

----------------------------------------------------------------------------
(* _core.py: class Interaction.  Its specification uses the same variables: *)
(* players is the heap of the Interaction objects, res the last call.       *)

MaxOrder == 4

\* The Interaction objects the heap may hold: the one the caller constructs
\* and the pairs of two calls of as_pairs on it.
MaxInteractions == 1 + MaxOrder * (MaxOrder - 1)

PlayerIds == {"a", "b", "c"}

\* Outcomes are numbers: an int or a float of a whole value.
IntOutcome(v) == [kind |-> "int", v |-> v]

FloatOutcome(v) == [kind |-> "float", v |-> v]

Outcomes == {IntOutcome(1), IntOutcome(2), FloatOutcome(2)}

\* np.array(xs) of a sequence of numbers: one dtype for all elements, float
\* as soon as one of them is a float.
np_array(xs) ==
    IF \E i \in DOMAIN xs : xs[i].kind = "float"
    THEN [i \in DOMAIN xs |-> FloatOutcome(xs[i].v)]
    ELSE xs

\* np.array_equal(a, b): the same shape and elementwise equal values; an int
\* equals the float of the same value.
array_equal(a, b) ==
    /\ Len(a) = Len(b)
    /\ \A i \in DOMAIN a : a[i].v = b[i].v

\* Interaction(players, outcomes): the object, or the exception __init__
\* raises.  The players are strings and keep their values in the array.
Interaction(ps, os) ==
    IF Len(ps) < 2 THEN Raise("ValueError")
    ELSE IF Len(ps) # Len(os) THEN Raise("ValueError")
    ELSE Yield([_players |-> ps, _outcomes |-> np_array(os)])

\* zip(xs, ys)
zip(xs, ys) ==
    [i \in 1..(IF Len(xs) < Len(ys) THEN Len(xs) ELSE Len(ys)) |->
        <<xs[i], ys[i]>>]

\* The pairs of one element with its right neighbour only.
adjacent_pairs(xs) == [i \in 1..(Len(xs) - 1) |-> <<xs[i], xs[i + 1]>>]

\* itertools.combinations(xs, 2): the pairs of the first element with each
\* later one, then the combinations of the rest.
RECURSIVE combinations(_)
combinations(xs) ==
    IF Len(xs) < 2 THEN <<>>
    ELSE [i \in 1..(Len(xs) - 1) |-> <<Head(xs), xs[i + 1]>>]
             \o combinations(Tail(xs))

\* The Interaction objects as_pairs constructs for self: one per combination.
pairs_of(self) ==
    LET cs == combinations(zip(self._players, self._outcomes))
    IN  [k \in DOMAIN cs |->
            LET z == zip(cs[k][1], cs[k][2])
            IN  Interaction(z[1], z[2]).ret]

InitPairs ==
    \E n \in 2..MaxOrder :
        \E ps \in [1..n -> PlayerIds], os \in [1..n -> Outcomes] :
            /\ players = <<Interaction(ps, os).ret>>
            /\ pops = [g \in Graphs |-> NoPopulation]
            /\ attaches = 0
            /\ res = Result("Interaction", "", <<ps, os>>, "ok", <<1>>)

\* Interaction(ps, os) with arguments __init__ refuses: fewer than two
\* players, or as many outcomes as there are not players.
Interaction_raises(ps, os) ==
    /\ Interaction(ps, os).status # "ok"
    /\ res' = Result("Interaction", "", <<ps, os>>,
                     Interaction(ps, os).status, <<>>)
    /\ UNCHANGED <<players, pops, attaches>>

\* players[self].as_pairs(): the list of the objects returned.
as_pairs(self) ==
    LET new == pairs_of(players[self])
    IN  IF Len(players[self]._players) = 2
        THEN /\ res' = Result("as_pairs", "", self, "ok", <<self>>)
             /\ UNCHANGED <<players, pops, attaches>>
        ELSE /\ Len(players) + Len(new) <= MaxInteractions
             /\ players' = players \o new
             /\ res' = Result("as_pairs", "", self, "ok",
                              [k \in DOMAIN new |-> Len(players) + k])
             /\ UNCHANGED <<pops, attaches>>

NextPairs ==
    \/ \E self \in DOMAIN players : as_pairs(self)
    \/ \E ps \in {<<"a">>, <<"a", "b">>}, os \in {<<IntOutcome(1)>>} :
           Interaction_raises(ps, os)

SpecPairs == InitPairs /\ [][NextPairs]_vars

\* The place of the pair of positions i < j among the pairs of 1..n in
\* lexicographic order.
PlaceOf(n, i, j) == (i - 1) * n - (i * (i - 1)) \div 2 + (j - i)

\* C31: as_pairs of an interaction of order 2 returns the list of that one
\* object and constructs nothing; of an interaction of n > 2 players it
\* returns n(n-1)/2 new interactions, the one at the lexicographic place of
\* (i, j), i < j, holding the players (p_i, p_j) and the outcomes (o_i, o_j).
C31_AsPairs ==
    [][(res'.op = "as_pairs") =>
        LET self == players[res'.arg]
            n == Len(self._players)
            ret == res'.ret
        IN  /\ res'.status = "ok"
            /\ n = 2 => ret = <<res'.arg>> /\ players' = players
            /\ n > 2 =>
                 /\ Len(ret) = (n * (n - 1)) \div 2
                 /\ NoDuplicates(ret)
                 /\ \A k \in DOMAIN ret : ret[k] > Len(players)
                 /\ \A o \in DOMAIN players : players'[o] = players[o]
                 /\ \A i, j \in 1..n : i < j =>
                        LET q == players'[ret[PlaceOf(n, i, j)]]
                        IN  /\ q._players = <<self._players[i], self._players[j]>>
                            /\ array_equal(q._outcomes,
                                   <<self._outcomes[i], self._outcomes[j]>>)
      ]_vars

\* C31's case: as_pairs of an interaction of four distinct-looking entries,
\* an int and a float among the outcomes, has returned six pairs.
C31_Witness ==
    /\ res.op = "as_pairs"
    /\ Len(players[res.arg]._players) = 4
    /\ Len(res.ret) = 6
    /\ players[res.arg]._players[1] # players[res.arg]._players[4]
    /\ players[res.arg]._outcomes[1].v # players[res.arg]._outcomes[3].v

\* C32: every branch of a graph is a key of its index and resolves to a node
\* whose parent links lead to the root of the graph, so that checkout of
\* every listed branch succeeds.
C32_BranchesResolve ==
    \A g \in Graphs : Callable(g) =>
        \A b \in pops[g].branches :
            /\ b \in Keys(pops[g].nodes)
            /\ Get(pops[g].nodes, b) \in Owned(players, pops[g])

\* How often x occurs in a sequence.
Count(seq, x) == Cardinality({i \in DOMAIN seq : seq[i] = x})

\* C33: in every graph, for every node p of the index and every object c,
\* c is in p's children list, once, iff c is a node of the index whose
\* parent is p.
C33_ChildrenInverseOfParent ==
    \A g \in Graphs : Callable(g) =>
        \A p \in NodesIn(pops[g]) : \A c \in Objects :
            /\ Count(players[p].children, c) <= 1
            /\ (c \in Range(players[p].children)) <=>
                   (c \in NodesIn(pops[g]) /\ players[c].parent = p)

\* C34: after a successful attach, every former child of the attached
\* graph's root is a child of the node of the receiving graph that has the
\* id of that root and has it as its parent, and the parent links of every
\* attached node lead through that node to the receiving graph's root.
C34_AttachSplices ==
    [][(res'.op = "attach" /\ res'.status = "ok") =>
        LET P == pops["pop"]
            Q == pops["detached_pop"]
            root_id == players[Q.root].id_str
        IN  \E node \in Owned(players, P) :
                /\ players[node].id_str = root_id
                /\ \A x \in Range(players[Q.root].children) :
                       /\ x \in Range(players'[node].children)
                       /\ players'[x].parent = node
                /\ \A o \in Owned(players, Q) \ {Q.root} :
                       /\ node \in Range(ParentChain(players', o)) \cup {P.root}
                       /\ TopOf(players', o) = P.root
      ]_vars

\* C35: after a successful attach, checkout by id of every attached node
\* (the nodes other's index holds under their own id, its root excepted)
\* finds a node whose branch_name is a branch of the receiving graph that
\* was added by the attach, not one the receiving graph had before.
C35_AttachedBranchLabels ==
    [][(res'.op = "attach" /\ res'.status = "ok") =>
        LET P == pops["pop"]
            Q == pops["detached_pop"]
            P2 == pops'["pop"]
            carried == {i \in DOMAIN Q.nodes :
                           /\ Q.nodes[i].k \notin Q.branches
                           /\ Q.nodes[i].v # Q.root}
        IN  \A i \in carried :
                LET id == players'[Q.nodes[i].v].id_str
                IN  /\ id \in Keys(P2.nodes)
                    /\ players'[Q.nodes[i].v].branch_name
                           \in P2.branches \ P.branches
                    /\ players'[Get(P2.nodes, id)].branch_name
                           \in P2.branches \ P.branches
      ]_vars

\* The specification's count of unsaved ancestors: 0 for a node that has
\* parameters, otherwise 1 plus the counts of its parent and of each of its
\* contributors; a root without parameters counts for more than any sparsity.
RECURSIVE UnsavedAncestors(_, _)
RECURSIVE UnsavedOfEach(_, _)
UnsavedOfEach(H, os) ==
    IF os = <<>> THEN 0
    ELSE UnsavedAncestors(H, Head(os)) + UnsavedOfEach(H, Tail(os))

UnsavedAncestors(H, o) ==
    IF H[o].model_parameters # "None" THEN 0
    ELSE IF H[o].parent = None THEN UnsavedOfRoot
    ELSE 1 + UnsavedAncestors(H, H[o].parent)
           + UnsavedOfEach(H, H[o].contributors)

\* C36: a successful commit retains the parameters it is passed iff 1 plus
\* the unsaved ancestors of the parent and of all contributors exceeds
\* sparsity; otherwise the new node has no parameters, only hyperparameters.
C36_RetainedIffOverSparsity ==
    [][(res'.op = "commit" /\ res'.status = "ok") =>
        LET P == pops["pop"]
            new == Len(players')
            count == 1 + UnsavedAncestors(players, P.current_node)
                       + UnsavedOfEach(players, res'.arg.contributors)
        IN  /\ players'[new].parent = P.current_node
            /\ players'[new].contributors = res'.arg.contributors
            /\ players'[new].hyperparameters \in Hyperparameters
            /\ players'[new].model_parameters =
                   IF count > P.sparsity THEN res'.arg.model_parameters
                   ELSE "None"
      ]_vars

\* C36's case: a commit was passed parameters and a contributor, and the
\* parent alone would not have made it exceed sparsity; the contributor did.
C36_Witness ==
    /\ res.op = "commit" /\ res.status = "ok"
    /\ res.arg.model_parameters # "None"
    /\ res.arg.contributors # <<>>
    /\ LET new == Len(players)
           s == pops["pop"].sparsity
       IN  /\ players[new].model_parameters = res.arg.model_parameters
           /\ 1 + UnsavedAncestors(players, players[new].parent) <= s
           /\ UnsavedOfEach(players, res.arg.contributors) < UnsavedOfRoot

\* C37: the root has parameters, and get_nbr_unsaved_ancestors of an object
\* that has neither a parent nor parameters does not return a count.
C37_RootHasParameters ==
    /\ players[pops["pop"].root].model_parameters # "None"
    /\ \A o \in DOMAIN players :
           (players[o].parent = None /\ players[o].model_parameters = "None")
               => get_nbr_unsaved_ancestors(players, o) \notin Nat

\* C38: rebuild_model_parameters without save leaves every object as it
\* was; with save, on a node without parameters that can be recomputed, it
\* returns the recomputed parameters and stores them on that node, changes
\* no other field and no other object and no field of the Population, and
\* a second call returns the same value.
C38_RebuildPersist ==
    [][(res'.op = "rebuild_model_parameters") =>
        LET self == res'.arg.self
            absent == players[self].model_parameters = "None"
        IN  /\ pops' = pops
            /\ ~res'.arg.save => players' = players
            /\ (/\ res'.arg.save
                /\ absent
                /\ UnsavedAncestors(players, self) < UnsavedOfRoot) =>
                   /\ res'.status = "ok"
                   /\ res'.ret = Materialized(players, self)
                   /\ players' =
                          [players EXCEPT ![self].model_parameters = res'.ret]
                   /\ rebuild_model_parameters(players', self) = Yield(res'.ret)
      ]_vars

\* The id_strs from object c up the parent links, c first and the root last.
RECURSIVE tree_history(_, _)
tree_history(H, c) ==
    IF c = None THEN <<>> ELSE <<H[c].id_str>> \o tree_history(H, H[c].parent)

\* Population.get_commit_history(id_str) of phylogenetic.py.
tree_get_commit_history(H, P, id_str) ==
    IF id_str = EmptyStr THEN Yield(tree_history(H, P.current_node))
    ELSE IF id_str \notin Keys(P.nodes) THEN Raise("KeyError")
    ELSE Yield(tree_history(H, Get(P.nodes, id_str)))

\* C39: a successful branch(name) of the sparsity Population constructs one
\* node, a child of the current node in the current node's generation with
\* the current node's parameters and hyperparameters, makes it the tip of
\* the new branch and an entry of the index, and changes neither the current
\* node nor the current branch nor another branch; the commit history of
\* the new tip is that of the current node with one entry more.
C39_TreeBranchCreatesNode ==
    [][(res'.op = "branch" /\ res'.status = "ok") =>
        LET P == pops["pop"]
            P2 == pops'["pop"]
            cur == P.current_node
            new == Len(players')
            name == res'.arg.branch_name
        IN  /\ Len(players') = Len(players) + 1
            /\ players'[new].parent = cur
            /\ players'[cur].children = Append(players[cur].children, new)
            /\ players'[new].generation = players[cur].generation
            /\ players'[new].model_parameters = players[cur].model_parameters
            /\ players'[new].hyperparameters = players[cur].hyperparameters
            /\ players'[new].id_str = res'.ret
            /\ \A o \in DOMAIN players \ {cur} : players'[o] = players[o]
            /\ name \notin Keys(P.branches)
            /\ Keys(P2.branches) = Keys(P.branches) \cup {name}
            /\ Get(P2.branches, name) = new
            /\ \A b \in Keys(P.branches) :
                   Get(P2.branches, b) = Get(P.branches, b)
            /\ Get(P2.nodes, res'.ret) = new
            /\ P2.current_node = cur
            /\ P2.current_branch = P.current_branch
            /\ tree_get_commit_history(players', P2, res'.ret) =
                   Yield(<<res'.ret>> \o
                         tree_get_commit_history(players, P, EmptyStr).ret)
      ]_vars

\* C39's case: a branch has been made at a committed node that has
\* parameters: the history of the new tip has three entries, the node made
\* by branch, the commit and the root.
C39_Witness ==
    /\ res.op = "branch" /\ res.status = "ok"
    /\ LET P == pops["pop"]
           new == Len(players)
           cur == players[new].parent
       IN  /\ cur = P.current_node
           /\ players[cur].model_parameters # "None"
           /\ players[new].generation = players[cur].generation
           /\ players[cur].parent = P.root
           /\ Len(tree_get_commit_history(players, P, res.ret).ret) = 3
           /\ Keys(P.branches) = {DefaultRootId, res.arg.branch_name}

====
